---- MODULE Spec2Model ----
(***************************************************************************)
(* The three charting scripts plot_families.py, plot_top_families.py and   *)
(* plot_months.py as one state machine.  One run of one script is: the     *)
(* argument check, opening the file, one loop iteration per line, the      *)
(* grouping stage and the rendering stage.                                 *)
(*                                                                         *)
(* A line of the file is the tuple of its comma-separated fields.  A       *)
(* family label is a string; every other field is the sequence of its      *)
(* characters, which strptime, int and float parse as the library does on  *)
(* the inputs enumerated here (decimal digits, "-", letters).  Numeric     *)
(* fields are whole numbers, so float() and int() agree on them and sums   *)
(* are exact.  plot_months stores the USD amount in hundredths of a        *)
(* million (round(x / 1000000, 2)), so its epsilon 1.6 is 160 hundredths.  *)
(***************************************************************************)
EXTENDS Integers, Sequences, FiniteSets, TLC

VARIABLES
    script,             \* which of the three scripts runs
    argv,               \* sys.argv
    file,               \* the lines of the file at sys.argv[1], header first
    pc,                 \* position of the run
    rest,               \* lines the ingestion loop has not looked at yet
    families,           \* dict: family label -> its lists (and totals)
    famOrder,           \* insertion order of the keys of families
    min_month,          \* plot_top_families
    max_month,          \* plot_top_families
    months,             \* plot_months
    count,              \* plot_months
    amount_btc,         \* plot_months
    amount_usd,         \* plot_months
    small,              \* plot_families
    medium,             \* plot_families
    large,              \* plot_families
    top_families_count, \* plot_top_families
    top_families_btc,   \* plot_top_families
    top_families_usd,   \* plot_top_families
    panels,             \* plot_top_families: per panel, the (family, colour) lines plotted
    texts,              \* plot_months: the ax.text value labels, in call order
    stdout,             \* what print has written
    exit_code,          \* -1 while running, then the process exit status
    error,              \* "" or the uncaught exception
    opened,             \* the input file has been opened
    shown,              \* the charts shown by plt.show, in order
    panel               \* plot_months: index i of the panel loop (1-based)

vars == <<script, argv, file, pc, rest, families, famOrder, min_month, max_month,
          months, count, amount_btc, amount_usd, small, medium, large,
          top_families_count, top_families_btc, top_families_usd, panels, texts,
          stdout, exit_code, error, opened, shown, panel>>

-----------------------------------------------------------------------------
(* Bounds of the inputs *)

MaxRows == 3
MaxMonthRows == 3
MaxPreambleRows == 2
NumFiller == 15

-----------------------------------------------------------------------------
(* Program constants *)

SMALL_THRESHOLD == 1000
MEDIUM_THRESHOLD == 50000
topN == 15
usd_factor_months == 1000000
usd_factor_top == 1

colours == <<"red", "darkcyan", "black", "darkorange", "dodgerblue", "magenta", "gold",
             "limegreen", "blueviolet", "chocolate", "olivedrab", "lawngreen", "darkgreen",
             "lightseagreen", "silver", "blue", "olive", "violet", "tan", "darkred",
             "hotpink", "khaki", "dimgrey", "salmon", "sandybrown">>

\* epsilons = [75, 300, 1.6]; the third in hundredths of a million USD
epsilons == <<75, 300, 160>>

Scripts == {"plot_families", "plot_top_families", "plot_months"}
FamilyScripts == {"plot_families", "plot_top_families"}

-----------------------------------------------------------------------------
(* Parsing *)

Digits == {"0", "1", "2", "3", "4", "5", "6", "7", "8", "9"}

DigitVal(c) ==
    CASE c = "0" -> 0 [] c = "1" -> 1 [] c = "2" -> 2 [] c = "3" -> 3 [] c = "4" -> 4
      [] c = "5" -> 5 [] c = "6" -> 6 [] c = "7" -> 7 [] c = "8" -> 8 [] c = "9" -> 9

AllDigits(s) == Len(s) > 0 /\ \A i \in 1..Len(s) : s[i] \in Digits

RECURSIVE DigitsValue(_)
DigitsValue(s) ==
    IF s = <<>> THEN 0
    ELSE DigitsValue(SubSeq(s, 1, Len(s) - 1)) * 10 + DigitVal(s[Len(s)])

\* int(field): the value, or -1 for ValueError
ParseInt(s) == IF AllDigits(s) THEN DigitsValue(s) ELSE -1

\* float(field) on whole-number fields: the value, or -1 for ValueError
ParseFloat(s) == IF AllDigits(s) THEN DigitsValue(s) ELSE -1

\* datetime.datetime.strptime(field, "%Y-%m"): months since year 0, or -1 for ValueError.
\* %Y is four digits, %m is one or two digits naming a month 1..12.
strptime(s) ==
    IF /\ Len(s) \in {6, 7}
       /\ AllDigits(SubSeq(s, 1, 4))
       /\ s[5] = "-"
       /\ AllDigits(SubSeq(s, 6, Len(s)))
       /\ DigitsValue(SubSeq(s, 6, Len(s))) \in 1..12
    THEN DigitsValue(SubSeq(s, 1, 4)) * 12 + (DigitsValue(SubSeq(s, 6, Len(s))) - 1)
    ELSE -1

Total == <<"T", "o", "t", "a", "l">>

\* round(x / d) to the nearest whole unit, ties to even (Python's round)
RoundDiv(x, d) ==
    LET q == x \div d
        r == x % d
    IN  IF 2 * r > d THEN q + 1
        ELSE IF 2 * r < d THEN q
        ELSE IF q % 2 = 0 THEN q ELSE q + 1

DatetimeMax == 9999 * 12 + 11
DatetimeMin == 1 * 12

Min2(a, b) == IF a <= b THEN a ELSE b
Max2(a, b) == IF a >= b THEN a ELSE b

\* max(list)
Max(s) == CHOOSE x \in {s[i] : i \in 1..Len(s)} : \A j \in 1..Len(s) : x >= s[j]

-----------------------------------------------------------------------------
(* Input files *)

m2020_12 == <<"2", "0", "2", "0", "-", "1", "2">>
m2021_01 == <<"2", "0", "2", "1", "-", "0", "1">>
m2021_02 == <<"2", "0", "2", "1", "-", "0", "2">>
m2021_03 == <<"2", "0", "2", "1", "-", "0", "3">>
m2021_05 == <<"2", "0", "2", "1", "-", "0", "5">>
m2021_13 == <<"2", "0", "2", "1", "-", "1", "3">>

HeaderFamilies ==
    <<"Family", <<"M", "o", "n", "t", "h">>, <<"C", "o", "u", "n", "t">>,
      <<"S", "u", "m">>, <<"S", "u", "m">>>>

HeaderMonths ==
    <<<<"M", "o", "n", "t", "h">>, <<"C", "o", "u", "n", "t">>, <<"S", "u", "m">>, <<"S", "u", "m">>>>

\* Lines of timeline_families.csv: Family,Month,Count,Sum (BTC),Sum (USD)
FamilyRowChoices ==
    { <<"A", m2021_02, <<"5">>, <<"1">>, <<"9", "9", "9">>>>,
      <<"A", m2021_01, <<"7">>, <<"2">>, <<"1", "0", "0", "0">>>>,
      <<"B", m2021_01, <<"5">>, <<"2">>, <<"4", "9", "9", "9", "9">>>>,
      <<"B", m2021_03, <<"7">>, <<"1">>, <<"5", "0", "0", "0", "0">>>>,
      <<"BlackCat", m2021_01, <<"9">>, <<"9">>, <<"1", "0", "0", "0">>>>,
      <<"A", Total, <<"1", "2">>, <<"3">>, <<"1", "9", "9", "9">>>>,
      <<"B", m2021_02, <<"x">>, <<"1">>, <<"5">>>>,
      <<"B", m2021_13, <<"2">>, <<"1">>, <<"1", "0">>>> }

FillerPool ==
    <<"F01", "F02", "F03", "F04", "F05", "F06", "F07", "F08",
      "F09", "F10", "F11", "F12", "F13", "F14", "F15", "F16">>

\* NumFiller families with one well-formed line each, ahead of the free lines
Preamble ==
    [i \in 1..NumFiller |->
        <<FillerPool[i], m2020_12,
          IF i % 2 = 1 THEN <<"7">> ELSE <<"5">>,
          IF i % 2 = 1 THEN <<"1">> ELSE <<"3">>,
          <<"1", "0", "0", "0">>>>]

AcmeFile ==
    <<HeaderFamilies,
      <<"Acme", m2021_01, <<"5">>, <<"1">>, <<"5", "0", "0">>>>,
      <<"Acme", m2021_02, <<"7">>, <<"2">>, <<"7", "0", "0">>>>,
      <<"Acme", m2021_03, <<"3">>, <<"1">>, <<"3", "0", "0">>>>>>

FreeFamilyRows == UNION {[1..k -> FamilyRowChoices] : k \in 0..MaxRows}

\* The free lines that follow the preamble
FreeRowsAfterPreamble == UNION {[1..k -> FamilyRowChoices] : k \in 0..MaxPreambleRows}

\* Lines of timeline_months.csv: Month,Count,Sum (BTC),Sum (USD)
MonthRowChoices ==
    { <<m2021_01, <<"1", "0">>, <<"1", "0", "0">>, <<"1", "0", "0", "5", "0", "0", "0">>>>,
      <<m2021_02, <<"8", "6">>, <<"4", "0", "0">>, <<"2", "6", "1", "4", "9", "9", "9">>>>,
      <<m2021_03, <<"8", "5">>, <<"4", "0", "1">>, <<"2", "6", "0", "0", "0", "0", "0">>>>,
      <<Total, <<"3", "8", "1">>, <<"1", "8", "0", "1">>, <<"9">>>>,
      <<m2021_05, <<"x">>, <<"1">>, <<"1">>>> }

FreeMonthRows == UNION {[1..k -> MonthRowChoices] : k \in 0..MaxMonthRows}

FilesFor(s) ==
    IF s = "plot_months" THEN {<<HeaderMonths>> \o r : r \in FreeMonthRows}
    ELSE IF s = "plot_families" THEN {<<HeaderFamilies>> \o r : r \in FreeFamilyRows} \cup {AcmeFile}
    ELSE {<<HeaderFamilies>> \o r : r \in FreeFamilyRows}
         \cup {<<HeaderFamilies>> \o Preamble \o r : r \in FreeRowsAfterPreamble}
         \cup {AcmeFile}

ArgvChoices(s) == {<<s>>, <<s, "timeline.csv">>, <<s, "timeline.csv", "extra">>}

-----------------------------------------------------------------------------
(* The state after the interpreter has loaded the script *)

Init ==
    /\ script \in Scripts
    /\ argv \in ArgvChoices(script)
    /\ file \in FilesFor(script)
    /\ pc = "args"
    /\ rest = <<>>
    /\ families = <<>>
    /\ famOrder = <<>>
    /\ min_month = DatetimeMax
    /\ max_month = DatetimeMin
    /\ months = <<>> /\ count = <<>> /\ amount_btc = <<>> /\ amount_usd = <<>>
    /\ small = <<>> /\ medium = <<>> /\ large = <<>>
    /\ top_families_count = <<>> /\ top_families_btc = <<>> /\ top_families_usd = <<>>
    /\ panels = <<>>
    /\ texts = <<>>
    /\ stdout = <<>>
    /\ exit_code = -1
    /\ error = ""
    /\ opened = FALSE
    /\ shown = <<>>
    /\ panel = 1

-----------------------------------------------------------------------------
(* Argument check *)

\* Mutant: extra arguments are accepted
ArgsOk_atLeastOne(a) == Len(a) >= 2

\* len(sys.argv) != 2 is the usage path
ArgsOk(a) == Len(a) = 2

CheckArgs ==
    /\ pc = "args"
    /\ IF ArgsOk(argv)
       THEN /\ pc' = "open"
            /\ UNCHANGED <<stdout, exit_code>>
       ELSE /\ stdout' = Append(stdout, <<"Usage", 0>>)
            /\ exit_code' = 1
            /\ pc' = "exited"
    /\ UNCHANGED <<script, argv, file, rest, families, famOrder, min_month, max_month,
                   months, count, amount_btc, amount_usd, small, medium, large,
                   top_families_count, top_families_btc, top_families_usd, panels, texts,
                   error, opened, shown, panel>>

\* with open(sys.argv[1], "r") as file: file.readlines()[1:]
OpenFile ==
    /\ pc = "open"
    /\ opened' = TRUE
    /\ rest' = SubSeq(file, 2, Len(file))
    /\ pc' = "ingest"
    /\ UNCHANGED <<script, argv, file, families, famOrder, min_month, max_month,
                   months, count, amount_btc, amount_usd, small, medium, large,
                   top_families_count, top_families_btc, top_families_usd, panels, texts,
                   stdout, exit_code, error, shown, panel>>

-----------------------------------------------------------------------------
(* Ingestion, plot_families and plot_top_families *)

\* Mutant: no check for "Total" in the month field
RowOutcome_noTotalCheck(s, parts) ==
    IF s = "plot_top_families" /\ parts[1] = "BlackCat" THEN "skip"
    ELSE IF \/ strptime(parts[2]) = -1
            \/ ParseInt(parts[3]) = -1
            \/ ParseFloat(parts[4]) = -1
            \/ ParseFloat(parts[5]) = -1 THEN "error"
    ELSE "ok"

\* Mutant: no BlackCat exclusion
RowOutcome_noBlackCatSkip(s, parts) ==
    IF parts[2] = Total THEN "skip"
    ELSE IF \/ strptime(parts[2]) = -1
            \/ ParseInt(parts[3]) = -1
            \/ ParseFloat(parts[4]) = -1
            \/ ParseFloat(parts[5]) = -1 THEN "error"
    ELSE "ok"

\* Mutant: a line that does not parse is skipped instead of raising
RowOutcome_skipOnError(s, parts) ==
    IF s = "plot_top_families" /\ parts[1] = "BlackCat" THEN "skip"
    ELSE IF parts[2] = Total THEN "skip"
    ELSE IF \/ strptime(parts[2]) = -1
            \/ ParseInt(parts[3]) = -1
            \/ ParseFloat(parts[4]) = -1
            \/ ParseFloat(parts[5]) = -1 THEN "skip"
    ELSE "ok"

\* What one iteration of the loop does with a line, before it touches families:
\* "skip" (continue), "error" (a parse raises ValueError) or "ok"
RowOutcome(s, parts) ==
    IF s = "plot_top_families" /\ parts[1] = "BlackCat" THEN "skip"
    ELSE IF parts[2] = Total THEN "skip"
    ELSE IF \/ strptime(parts[2]) = -1
            \/ ParseInt(parts[3]) = -1
            \/ ParseFloat(parts[4]) = -1
            \/ ParseFloat(parts[5]) = -1 THEN "error"
    ELSE "ok"

\* families[family] = dict() with its empty lists (and zero totals)
NewFamily(s) ==
    IF s = "plot_top_families"
    THEN [month |-> <<>>, count |-> <<>>, sum_btc |-> <<>>, sum_usd |-> <<>>,
          total_count |-> 0, total_sum_btc |-> 0, total_sum_usd |-> 0]
    ELSE [month |-> <<>>, count |-> <<>>, sum_btc |-> <<>>, sum_usd |-> <<>>]

\* Mutant: the new value goes to the front of the list
ListAppend_atFront(list, x) == <<x>> \o list

\* list.append
ListAppend(list, x) == Append(list, x)

\* The appends and += of one line onto the family's entry
AddRow(s, entry, parts) ==
    IF s = "plot_top_families"
    THEN [month |-> ListAppend(entry.month, strptime(parts[2])),
          count |-> ListAppend(entry.count, ParseInt(parts[3])),
          sum_btc |-> ListAppend(entry.sum_btc, ParseFloat(parts[4])),
          sum_usd |-> ListAppend(entry.sum_usd, ParseFloat(parts[5]) \div usd_factor_top),
          total_count |-> entry.total_count + ParseInt(parts[3]),
          total_sum_btc |-> entry.total_sum_btc + ParseFloat(parts[4]),
          total_sum_usd |-> entry.total_sum_usd + ParseFloat(parts[5])]
    ELSE [month |-> ListAppend(entry.month, strptime(parts[2])),
          count |-> ListAppend(entry.count, ParseInt(parts[3])),
          sum_btc |-> ListAppend(entry.sum_btc, ParseFloat(parts[4])),
          sum_usd |-> ListAppend(entry.sum_usd, ParseFloat(parts[5]))]

IngestFamilyRow ==
    /\ pc = "ingest"
    /\ script \in FamilyScripts
    /\ rest # <<>>
    /\ LET parts == Head(rest)
           family == parts[1]
           outcome == RowOutcome(script, parts)
           month == strptime(parts[2])
           known == family \in DOMAIN families
           entry == IF known THEN families[family] ELSE NewFamily(script)
       IN  /\ IF outcome = "ok"
              THEN /\ families' = (family :> AddRow(script, entry, parts)) @@ families
                   /\ famOrder' = IF known THEN famOrder ELSE Append(famOrder, family)
              ELSE UNCHANGED <<families, famOrder>>
           /\ IF script = "plot_top_families" /\ outcome # "skip" /\ month # -1
              THEN /\ min_month' = Min2(min_month, month)
                   /\ max_month' = Max2(max_month, month)
              ELSE UNCHANGED <<min_month, max_month>>
           /\ IF outcome = "error"
              THEN /\ pc' = "error"
                   /\ error' = "ValueError"
                   /\ exit_code' = 1
                   /\ UNCHANGED rest
              ELSE /\ rest' = Tail(rest)
                   /\ UNCHANGED <<pc, error, exit_code>>
    /\ UNCHANGED <<script, argv, file, months, count, amount_btc, amount_usd,
                   small, medium, large, top_families_count, top_families_btc,
                   top_families_usd, panels, texts, stdout, opened, shown, panel>>

-----------------------------------------------------------------------------
(* Ingestion, plot_months *)

\* amount_usd.append(round(float(parts[3]) / usd_factor, 2)), in hundredths
ScaledUsd(x) == RoundDiv(x * 100, usd_factor_months)

\* One iteration: the four appends run in order and the first failing parse
\* raises, leaving the earlier appends of the line in place
IngestMonthRow ==
    /\ pc = "ingest"
    /\ script = "plot_months"
    /\ rest # <<>>
    /\ LET parts == Head(rest)
           okMonth == strptime(parts[1]) # -1
           okCount == okMonth /\ ParseInt(parts[2]) # -1
           okBtc == okCount /\ ParseFloat(parts[3]) # -1
           okUsd == okBtc /\ ParseFloat(parts[4]) # -1
       IN  /\ months' = IF okMonth THEN ListAppend(months, strptime(parts[1])) ELSE months
           /\ count' = IF okCount THEN ListAppend(count, ParseInt(parts[2])) ELSE count
           /\ amount_btc' = IF okBtc THEN ListAppend(amount_btc, ParseFloat(parts[3]))
                            ELSE amount_btc
           /\ amount_usd' = IF okUsd THEN ListAppend(amount_usd, ScaledUsd(ParseFloat(parts[4])))
                            ELSE amount_usd
           /\ IF okUsd
              THEN /\ rest' = Tail(rest)
                   /\ UNCHANGED <<pc, error, exit_code>>
              ELSE /\ pc' = "error"
                   /\ error' = "ValueError"
                   /\ exit_code' = 1
                   /\ UNCHANGED rest
    /\ UNCHANGED <<script, argv, file, families, famOrder, min_month, max_month,
                   small, medium, large, top_families_count, top_families_btc,
                   top_families_usd, panels, texts, stdout, opened, shown, panel>>

\* The loop over the lines ends; the file is closed
IngestDone ==
    /\ pc = "ingest"
    /\ rest = <<>>
    /\ pc' = IF script = "plot_months" THEN "render" ELSE "group"
    /\ UNCHANGED <<script, argv, file, rest, families, famOrder, min_month, max_month,
                   months, count, amount_btc, amount_usd, small, medium, large,
                   top_families_count, top_families_btc, top_families_usd, panels, texts,
                   stdout, exit_code, error, opened, shown, panel>>

-----------------------------------------------------------------------------
(* Grouping, plot_families *)

\* Mutant: the thresholds compared with <= instead of <
Bucket_inclusive(max_sum_usd) ==
    IF max_sum_usd <= SMALL_THRESHOLD THEN "small"
    ELSE IF max_sum_usd <= MEDIUM_THRESHOLD THEN "medium"
    ELSE "large"

\* The if / elif / else on max_sum_usd
Bucket(max_sum_usd) ==
    IF max_sum_usd < SMALL_THRESHOLD THEN "small"
    ELSE IF max_sum_usd < MEDIUM_THRESHOLD THEN "medium"
    ELSE "large"

\* for family in families: ... append; in the dict's insertion order
BucketList(name) ==
    SelectSeq(famOrder, LAMBDA family : Bucket(Max(families[family].sum_usd)) = name)

GroupFamilies ==
    /\ pc = "group"
    /\ script = "plot_families"
    /\ small' = BucketList("small")
    /\ medium' = BucketList("medium")
    /\ large' = BucketList("large")
    /\ stdout' = stdout \o <<<<"Small", Len(BucketList("small"))>>,
                             <<"Medium", Len(BucketList("medium"))>>,
                             <<"Large", Len(BucketList("large"))>>>>
    /\ pc' = "render"
    /\ UNCHANGED <<script, argv, file, rest, families, famOrder, min_month, max_month,
                   months, count, amount_btc, amount_usd,
                   top_families_count, top_families_btc, top_families_usd, panels, texts,
                   exit_code, error, opened, shown, panel>>

-----------------------------------------------------------------------------
(* Grouping, plot_top_families *)

\* Mutant: an ascending sort that is then reversed, which turns ties around
InsertDesc_reversedTies(sorted, x, key) ==
    SelectSeq(sorted, LAMBDA e : key[e] > key[x]) \o <<x>>
        \o SelectSeq(sorted, LAMBDA e : key[e] <= key[x])

\* Where sorted(..., reverse=True) puts x among the already sorted items:
\* behind every item whose key is not smaller (the sort is stable)
InsertDesc(sorted, x, key) ==
    SelectSeq(sorted, LAMBDA e : key[e] >= key[x]) \o <<x>>
        \o SelectSeq(sorted, LAMBDA e : key[e] < key[x])

\* sorted(families.items(), key=..., reverse=True), as the list of its keys
RECURSIVE SortedDesc(_, _)
SortedDesc(items, key) ==
    IF items = <<>> THEN <<>>
    ELSE InsertDesc(SortedDesc(SubSeq(items, 1, Len(items) - 1), key), items[Len(items)], key)

\* Mutant: the slice is one too long
TopSlice_offByOne(list) == SubSeq(list, 1, Min2(topN + 1, Len(list)))

\* list(...)[:topN]
TopSlice(list) == SubSeq(list, 1, Min2(topN, Len(list)))

families_by_count == SortedDesc(famOrder, [f \in DOMAIN families |-> families[f].total_count])
families_by_btc == SortedDesc(famOrder, [f \in DOMAIN families |-> families[f].total_sum_btc])
families_by_usd == SortedDesc(famOrder, [f \in DOMAIN families |-> families[f].total_sum_usd])

GroupTop ==
    /\ pc = "group"
    /\ script = "plot_top_families"
    /\ top_families_count' = TopSlice(families_by_count)
    /\ top_families_btc' = TopSlice(families_by_btc)
    /\ top_families_usd' = TopSlice(families_by_usd)
    /\ pc' = "render"
    /\ UNCHANGED <<script, argv, file, rest, families, famOrder, min_month, max_month,
                   months, count, amount_btc, amount_usd, small, medium, large,
                   panels, texts, stdout, exit_code, error, opened, shown, panel>>

-----------------------------------------------------------------------------
(* Rendering, plot_families: plot_family_group(small / medium / large) *)

GroupNames == <<"small", "medium", "large">>

PlotFamilyGroup ==
    /\ pc = "render"
    /\ script = "plot_families"
    /\ LET k == Len(shown) + 1
           family_names == IF k = 1 THEN small ELSE IF k = 2 THEN medium ELSE large
       IN  /\ shown' = Append(shown, <<GroupNames[k], family_names>>)
           /\ IF k = 3
              THEN pc' = "done" /\ exit_code' = 0
              ELSE UNCHANGED <<pc, exit_code>>
    /\ UNCHANGED <<script, argv, file, rest, families, famOrder, min_month, max_month,
                   months, count, amount_btc, amount_usd, small, medium, large,
                   top_families_count, top_families_btc, top_families_usd, panels, texts,
                   stdout, error, opened, panel>>

-----------------------------------------------------------------------------
(* Rendering, plot_top_families *)

\* Mutant: the palette index wraps around after ten colours
ColourOf_wrapped(j) == colours[((j - 1) % 10) + 1]

\* color=colours[j] for the j-th family of a panel (1-based here)
ColourOf(j) == colours[j]

\* for j, family_name in enumerate(family_names): ax.plot(..., color=colours[j], ...)
PanelLines(family_names) ==
    [j \in 1..Len(family_names) |-> <<family_names[j], ColourOf(j)>>]

RenderTop ==
    /\ pc = "render"
    /\ script = "plot_top_families"
    /\ LET family_groups == <<top_families_count, top_families_btc, top_families_usd>>
       IN  IF \E i \in 1..3 : Len(family_groups[i]) > Len(colours)
           THEN /\ pc' = "error"
                /\ error' = "IndexError"
                /\ exit_code' = 1
                /\ UNCHANGED <<panels, shown>>
           ELSE /\ panels' = [i \in 1..3 |-> PanelLines(family_groups[i])]
                /\ shown' = Append(shown, <<"top", family_groups>>)
                /\ pc' = "done"
                /\ exit_code' = 0
                /\ UNCHANGED error
    /\ UNCHANGED <<script, argv, file, rest, families, famOrder, min_month, max_month,
                   months, count, amount_btc, amount_usd, small, medium, large,
                   top_families_count, top_families_btc, top_families_usd, texts,
                   stdout, opened, panel>>

-----------------------------------------------------------------------------
(* Rendering, plot_months *)

\* Mutant: >= instead of >
IsPeak_orEqual(y_values, j, epsilon) ==
    /\ y_values[j] >= y_values[j - 1] + epsilon
    /\ y_values[j] >= y_values[j + 1] + epsilon

\* y_values[j] > (y_values[j-1] + epsilon) and y_values[j] > (y_values[j+1] + epsilon)
IsPeak(y_values, j, epsilon) ==
    /\ y_values[j] > y_values[j - 1] + epsilon
    /\ y_values[j] > y_values[j + 1] + epsilon

\* range(1, len(y_values) - 1), 1-based
InteriorIndices(y_values) == [k \in 1..(Len(y_values) - 2) |-> k + 1]

TextAt(i, y_values, j, ha) == [panel |-> i, idx |-> j, val |-> y_values[j], ha |-> ha]

\* The ax.text calls of panel i: the peaks, then the first and the last point
PanelTexts(i, y_values) ==
    LET peaks == SelectSeq(InteriorIndices(y_values),
                           LAMBDA j : IsPeak(y_values, j, epsilons[i]))
    IN  [k \in 1..Len(peaks) |-> TextAt(i, y_values, peaks[k], "center")]
            \o <<TextAt(i, y_values, 1, "left"),
                 TextAt(i, y_values, Len(y_values), "right")>>

\* One iteration of: for i in range(len(stats))
RenderMonthPanel ==
    /\ pc = "render"
    /\ script = "plot_months"
    /\ panel <= 3
    /\ LET stats == <<count, amount_btc, amount_usd>>
       IN  IF months = <<>>
           THEN /\ pc' = "error"
                /\ error' = "IndexError"
                /\ exit_code' = 1
                /\ UNCHANGED <<texts, panel>>
           ELSE /\ texts' = texts \o PanelTexts(panel, stats[panel])
                /\ panel' = panel + 1
                /\ UNCHANGED <<pc, error, exit_code>>
    /\ UNCHANGED <<script, argv, file, rest, families, famOrder, min_month, max_month,
                   months, count, amount_btc, amount_usd, small, medium, large,
                   top_families_count, top_families_btc, top_families_usd, panels,
                   stdout, opened, shown>>

ShowMonths ==
    /\ pc = "render"
    /\ script = "plot_months"
    /\ panel = 4
    /\ shown' = Append(shown, <<"months", months>>)
    /\ pc' = "done"
    /\ exit_code' = 0
    /\ UNCHANGED <<script, argv, file, rest, families, famOrder, min_month, max_month,
                   months, count, amount_btc, amount_usd, small, medium, large,
                   top_families_count, top_families_btc, top_families_usd, panels, texts,
                   stdout, error, opened, panel>>

-----------------------------------------------------------------------------

Next ==
    \/ CheckArgs
    \/ OpenFile
    \/ IngestFamilyRow
    \/ IngestMonthRow
    \/ IngestDone
    \/ GroupFamilies
    \/ GroupTop
    \/ PlotFamilyGroup
    \/ RenderTop
    \/ RenderMonthPanel
    \/ ShowMonths

Spec == Init /\ [][Next]_vars

-----------------------------------------------------------------------------
(* What the properties below speak about, read off the input file *)

\* The lines after the header
DataLines == SubSeq(file, 2, Len(file))

\* The lines the ingestion loop has gone past
Processed == SubSeq(DataLines, 1, Len(DataLines) - Len(rest))

\* The month field of a line in the script's file format
MonthField(s, parts) == IF s = "plot_months" THEN parts[1] ELSE parts[2]

\* A line the script's loop leaves with continue
IsSkipped(s, parts) ==
    \/ s \in FamilyScripts /\ parts[2] = Total
    \/ s = "plot_top_families" /\ parts[1] = "BlackCat"

\* A line with a date or numeric field that does not parse
IsMalformed(s, parts) ==
    IF s = "plot_months"
    THEN \/ strptime(parts[1]) = -1
         \/ ParseInt(parts[2]) = -1
         \/ ParseFloat(parts[3]) = -1
         \/ ParseFloat(parts[4]) = -1
    ELSE \/ strptime(parts[2]) = -1
         \/ ParseInt(parts[3]) = -1
         \/ ParseFloat(parts[4]) = -1
         \/ ParseFloat(parts[5]) = -1

Ingested == pc \in {"group", "render", "done"}

Elems(list) == {list[i] : i \in 1..Len(list)}

Occurrences(list, x) == Cardinality({i \in 1..Len(list) : list[i] = x})

RECURSIVE SumSeq(_)
SumSeq(list) == IF list = <<>> THEN 0 ELSE list[1] + SumSeq(Tail(list))

\* The data lines of one family among the given lines
LinesOf(lines, f) == SelectSeq(lines, LAMBDA parts : parts[1] = f /\ ~IsSkipped(script, parts))

\* Index in the file of the family's first data line (0: none)
FirstSeen(f) ==
    LET at == {i \in 1..Len(DataLines) :
                  DataLines[i][1] = f /\ ~IsSkipped(script, DataLines[i])}
    IN  IF at = {} THEN 0 ELSE CHOOSE i \in at : \A k \in at : i <= k

-----------------------------------------------------------------------------
(* C1 *)

BucketRank(f) == IF f \in Elems(small) THEN 1 ELSE IF f \in Elems(medium) THEN 2 ELSE 3

\* C1: when plot_families has grouped, every category is in exactly one of
\* small, medium, large, chosen by its maximum USD sum m (m < 1000 small,
\* 1000 <= m < 50000 medium, m >= 50000 large), the lists hold nothing but
\* categories, and a category with a smaller or equal maximum is never in a
\* larger bucket.
C1_BucketsPartition ==
    (script = "plot_families" /\ pc \in {"render", "done"}) =>
        /\ Elems(small) \cup Elems(medium) \cup Elems(large) = DOMAIN families
        /\ \A f \in DOMAIN families :
              LET m == Max(families[f].sum_usd)
              IN  /\ Occurrences(small, f) + Occurrences(medium, f) + Occurrences(large, f) = 1
                  /\ (m < 1000) <=> (f \in Elems(small))
                  /\ (1000 <= m /\ m < 50000) <=> (f \in Elems(medium))
                  /\ (m >= 50000) <=> (f \in Elems(large))
        /\ \A f, g \in DOMAIN families :
              Max(families[f].sum_usd) <= Max(families[g].sum_usd)
                  => BucketRank(f) <= BucketRank(g)

\* All three buckets are in use, one family sits exactly on each threshold
C1_Witness ==
    /\ script = "plot_families" /\ pc = "done"
    /\ small # <<>> /\ medium # <<>> /\ large # <<>>
    /\ \E f \in Elems(medium) : Max(families[f].sum_usd) = 1000
    /\ \E f \in Elems(large) : Max(families[f].sum_usd) = 50000

-----------------------------------------------------------------------------
(* C2 *)

\* The properties of one top-N group whose metric is the named list of the entries
TopGroupOk(group, metric) ==
    LET total == [f \in DOMAIN families |-> SumSeq(families[f][metric])]
    IN  /\ Len(group) <= 15
        /\ Len(group) = Min2(15, Cardinality(DOMAIN families))
        /\ Elems(group) \subseteq DOMAIN families
        /\ \A f \in Elems(group) : Occurrences(group, f) = 1
        /\ \A i, j \in 1..Len(group) : i < j => total[group[i]] >= total[group[j]]
        /\ \A f \in Elems(group) : \A g \in DOMAIN families \ Elems(group) :
              total[f] >= total[g]
        /\ "BlackCat" \notin Elems(group)

\* C2: when plot_top_families has grouped, each of the three groups has at
\* most N = 15 families, exactly min(N, number of categories) of them, in
\* descending order of the metric's sum over the family's months, no family
\* left out beats one that is in, and BlackCat is in none.
C2_TopN ==
    (script = "plot_top_families" /\ pc \in {"render", "done"}) =>
        /\ TopGroupOk(top_families_count, "count")
        /\ TopGroupOk(top_families_btc, "sum_btc")
        /\ TopGroupOk(top_families_usd, "sum_usd")

\* More categories than N, BlackCat lines in the file, and the cut is made
C2_Witness ==
    /\ script = "plot_top_families" /\ pc = "done"
    /\ Cardinality(DOMAIN families) > 15
    /\ Len(top_families_count) = 15
    /\ \E i \in 1..Len(DataLines) : DataLines[i][1] = "BlackCat"

-----------------------------------------------------------------------------
(* C3 *)

\* C3 as stated, for all three scripts: a parse error never stops the run at
\* a line whose month field is "Total".
C3_TotalNeverAborts ==
    (pc = "error" /\ error = "ValueError") => MonthField(script, Head(rest)) # Total

\* C3, amended: opening the file drops the header line; in plot_families and
\* plot_top_families the iteration over a line whose month field is "Total"
\* only moves on to the next line (families, its key order and the run's
\* position and error are as before); in plot_months the iteration over such
\* a line raises ValueError and adds nothing to the four lists.
C3_TotalSkippedInFamilyScripts ==
    [][ /\ (pc = "open") => (rest' = Tail(file))
        /\ (pc = "ingest" /\ rest # <<>> /\ MonthField(script, Head(rest)) = Total) =>
              IF script \in FamilyScripts
              THEN /\ rest' = Tail(rest)
                   /\ families' = families
                   /\ famOrder' = famOrder
                   /\ pc' = "ingest"
                   /\ error' = ""
                   /\ exit_code' = -1
              ELSE /\ pc' = "error"
                   /\ error' = "ValueError"
                   /\ <<months, count, amount_btc, amount_usd>>'
                        = <<months, count, amount_btc, amount_usd>>
      ]_vars

\* A family script has run to the end over a file with a "Total" line of a
\* family that also has data lines
C3_Witness ==
    /\ script \in FamilyScripts /\ pc = "done"
    /\ \E i \in 1..Len(DataLines) :
          /\ DataLines[i][2] = Total
          /\ DataLines[i][1] \in DOMAIN families

-----------------------------------------------------------------------------
(* C4 *)

\* The labels of the lines that are neither the header nor "Total" lines
DataLabels == {DataLines[i][1] : i \in {k \in 1..Len(DataLines) : DataLines[k][2] # Total}}

\* C4 as stated, for both family scripts: after ingestion the number of keys
\* of families is the number of distinct labels of the non-"Total" lines.
C4_KeysAreDataLabels ==
    (script \in FamilyScripts /\ Ingested) =>
        Cardinality(DOMAIN families) = Cardinality(DataLabels)

\* C4, amended: after ingestion the keys of families are the distinct labels
\* of the non-"Total" lines in plot_families, and those labels other than
\* BlackCat in plot_top_families; a label only on "Total" lines is no key.
C4_KeysAreDataLabelsButBlackCat ==
    (script \in FamilyScripts /\ Ingested) =>
        /\ DOMAIN families =
              IF script = "plot_top_families" THEN DataLabels \ {"BlackCat"} ELSE DataLabels
        /\ Elems(famOrder) = DOMAIN families
        /\ Len(famOrder) = Cardinality(DOMAIN families)

\* plot_top_families has ingested a file with BlackCat data lines, a family
\* with data lines and a label that is only on a "Total" line
C4_Witness ==
    /\ script = "plot_top_families" /\ pc = "done"
    /\ "BlackCat" \in DataLabels
    /\ DOMAIN families # {}
    /\ \E i \in 1..Len(DataLines) : DataLines[i][1] \notin DataLabels

-----------------------------------------------------------------------------
(* C5 *)

\* The point at index j has a value label in panel i
Annotated(i, j) == \E k \in 1..Len(texts) : texts[k].panel = i /\ texts[k].idx = j

\* The value at j exceeds each neighbour it has by more than epsilon
ExceedsNeighbours(y_values, j, epsilon) ==
    /\ (j > 1) => y_values[j] > y_values[j - 1] + epsilon
    /\ (j < Len(y_values)) => y_values[j] > y_values[j + 1] + epsilon

Stats == <<count, amount_btc, amount_usd>>

\* C5 as stated: in every panel, every index of the series, the first and
\* the last included, is annotated if and only if its value exceeds its
\* neighbours by more than the panel's epsilon.
C5_AnnotatedIffPeak ==
    (script = "plot_months" /\ pc = "done") =>
        \A i \in 1..3 : \A j \in 1..Len(Stats[i]) :
            Annotated(i, j) <=> ExceedsNeighbours(Stats[i], j, epsilons[i])

\* C5, amended: an index that is neither the first nor the last is annotated
\* if and only if its value exceeds both neighbours by more than the panel's
\* epsilon (75, 300, 1.6 million); the first and the last index are always
\* annotated; every label shows the value of its point.
C5_InteriorAnnotatedIffPeak ==
    (script = "plot_months" /\ pc = "done") =>
        /\ \A i \in 1..3 : \A j \in 1..Len(Stats[i]) :
              Annotated(i, j) <=>
                  \/ j = 1
                  \/ j = Len(Stats[i])
                  \/ /\ Stats[i][j] > Stats[i][j - 1] + <<75, 300, 160>>[i]
                     /\ Stats[i][j] > Stats[i][j + 1] + <<75, 300, 160>>[i]
        /\ \A k \in 1..Len(texts) :
              /\ texts[k].panel \in 1..3
              /\ texts[k].idx \in 1..Len(Stats[texts[k].panel])
              /\ texts[k].val = Stats[texts[k].panel][texts[k].idx]

\* A chart whose second point is a labelled peak of the count and of the USD
\* panel and is unlabelled in the BTC panel, where it is above both
\* neighbours by exactly epsilon
C5_Witness ==
    /\ script = "plot_months" /\ pc = "done"
    /\ Len(months) = 3
    /\ Annotated(1, 2) /\ Annotated(3, 2)
    /\ amount_btc[2] = amount_btc[1] + 300
    /\ amount_btc[2] = amount_btc[3] + 300
    /\ ~Annotated(2, 2)

-----------------------------------------------------------------------------
(* C6 *)

\* C6: with an argument count other than one the run prints the usage
\* message and exits with code 1 and never opens the file, parses a line or
\* shows a chart; with exactly one argument it never takes the usage path.
C6_UsageExit ==
    /\ (Len(argv) - 1 # 1) =>
          /\ pc \in {"args", "exited"}
          /\ ~opened
          /\ families = <<>> /\ months = <<>>
          /\ shown = <<>> /\ texts = <<>> /\ panels = <<>>
          /\ (pc = "exited") => (exit_code = 1 /\ stdout = <<<<"Usage", 0>>>>)
    /\ (Len(argv) - 1 = 1) =>
          /\ pc # "exited"
          /\ \A k \in 1..Len(stdout) : stdout[k][1] # "Usage"

\* A run with two arguments has exited on the usage path
C6_Witness == pc = "exited" /\ Len(argv) = 3 /\ exit_code = 1

-----------------------------------------------------------------------------
(* C7 *)

\* The file has a line the script does not skip and cannot parse
HasMalformedLine ==
    \E i \in 1..Len(DataLines) :
        ~IsSkipped(script, DataLines[i]) /\ IsMalformed(script, DataLines[i])

\* C7: when a line that is not skipped has a date or numeric field that does
\* not parse, the run never reaches the grouping or the rendering stage: no
\* bucket counts are printed, no group is formed, no chart is shown, and if
\* the run has ended it ended in the parse error, not normally.
C7_ParseErrorIsFatal ==
    HasMalformedLine =>
        /\ ~Ingested
        /\ shown = <<>> /\ texts = <<>> /\ panels = <<>>
        /\ small = <<>> /\ medium = <<>> /\ large = <<>>
        /\ top_families_count = <<>> /\ top_families_btc = <<>> /\ top_families_usd = <<>>
        /\ \A k \in 1..Len(stdout) : stdout[k][1] = "Usage"
        /\ exit_code # 0
        /\ (pc = "error") => (error = "ValueError" /\ exit_code = 1)

\* A run stopped by a parse error on a later line, after lines that parsed
C7_Witness ==
    /\ pc = "error" /\ error = "ValueError"
    /\ script \in FamilyScripts
    /\ DOMAIN families # {}
    /\ Len(Processed) >= 2

-----------------------------------------------------------------------------
(* C8 *)

\* The parsed values of one field over a family's data lines, in file order
Column(lines, f, k) ==
    LET own == LinesOf(lines, f)
    IN  [i \in 1..Len(own) |->
            IF k = 2 THEN strptime(own[i][2])
            ELSE IF k = 3 THEN ParseInt(own[i][3])
            ELSE ParseFloat(own[i][k])]

\* C8: from the ingestion loop on, and unchanged by grouping and rendering,
\* the four lists of every category hold the fields of exactly that
\* category's data lines gone past so far, in file order, the k-th entry of
\* each list from the category's k-th data line; the three Acme lines give
\* counts [5, 7, 3], maximum USD sum 700 and the bucket small.
C8_SeriesInFileOrder ==
    (script \in FamilyScripts /\ pc \in {"ingest", "group", "render", "done"}) =>
        /\ \A f \in DOMAIN families :
              /\ families[f].month = Column(Processed, f, 2)
              /\ families[f].count = Column(Processed, f, 3)
              /\ families[f].sum_btc = Column(Processed, f, 4)
              /\ families[f].sum_usd = Column(Processed, f, 5)
              /\ Len(families[f].month) > 0
        /\ \A i \in 1..Len(Processed) :
              ~IsSkipped(script, Processed[i]) => Processed[i][1] \in DOMAIN families
        /\ (file = AcmeFile /\ Ingested) =>
              /\ DOMAIN families = {"Acme"}
              /\ families["Acme"].count = <<5, 7, 3>>
              /\ Max(families["Acme"].sum_usd) = 700
              /\ (script = "plot_families" /\ pc # "group") =>
                    (small = <<"Acme">> /\ medium = <<>> /\ large = <<>>)

\* A finished run whose file has a family's later month ahead of its earlier
\* month: the series keeps the file's order
C8_Witness ==
    /\ script \in FamilyScripts /\ pc = "done"
    /\ \E f \in DOMAIN families :
          /\ Len(families[f].month) >= 2
          /\ families[f].month[1] > families[f].month[2]
          /\ families[f].count[1] # families[f].count[2]

-----------------------------------------------------------------------------
(* C9 *)

\* In one top-N group, families with equal totals are in first-seen order,
\* and a family left out never ties with a later-seen family that is in
TiesByFirstSeen(group, metric) ==
    LET total == [f \in DOMAIN families |-> SumSeq(families[f][metric])]
    IN  /\ \A i, j \in 1..Len(group) :
              (i < j /\ total[group[i]] = total[group[j]])
                  => FirstSeen(group[i]) < FirstSeen(group[j])
        /\ \A f \in Elems(group) : \A g \in DOMAIN families \ Elems(group) :
              total[f] = total[g] => FirstSeen(f) < FirstSeen(g)

\* C9: in each of the three top-N groups, of two categories with equal
\* totals the one whose first data line is earlier in the file is ranked
\* first, and at the cut-off the earlier-seen of two tied categories is the
\* one kept.
C9_TiesByFirstSeen ==
    (script = "plot_top_families" /\ pc \in {"render", "done"}) =>
        /\ TiesByFirstSeen(top_families_count, "count")
        /\ TiesByFirstSeen(top_families_btc, "sum_btc")
        /\ TiesByFirstSeen(top_families_usd, "sum_usd")

\* A tie on the transaction count across the cut-off: the last family kept
\* and a family left out have the same total
C9_Witness ==
    /\ script = "plot_top_families" /\ pc = "done"
    /\ Len(top_families_count) = 15
    /\ \E g \in DOMAIN families \ Elems(top_families_count) :
          SumSeq(families[g].count) = SumSeq(families[top_families_count[15]].count)

-----------------------------------------------------------------------------
(* C10 *)

\* C10: plot_top_families never fails on the colour lookup, and in the chart
\* every panel plots its group in rank order, the family at rank j in the
\* palette colour at index j (1-based here, j <= 25), so that two families
\* of one panel never share a colour.
C10_PaletteIndexInRange ==
    (script = "plot_top_families") =>
        /\ error # "IndexError"
        /\ (pc = "done") =>
              LET family_groups == <<top_families_count, top_families_btc, top_families_usd>>
              IN  \A i \in 1..3 :
                     /\ Len(panels[i]) = Len(family_groups[i])
                     /\ \A j \in 1..Len(panels[i]) :
                           /\ j <= 25
                           /\ panels[i][j] = <<family_groups[i][j], colours[j]>>
                     /\ \A j, k \in 1..Len(panels[i]) :
                           j # k => /\ panels[i][j][1] # panels[i][k][1]
                                    /\ panels[i][j][2] # panels[i][k][2]

\* A chart with a full panel of N = 15 families
C10_Witness ==
    /\ script = "plot_top_families" /\ pc = "done"
    /\ Len(panels[1]) = 15
    /\ panels[1][15][2] = "silver"

====
